---- MODULE Spec2Model ----
(***************************************************************************)
(* A model of go-blog: the post registry loaded by getPostList, the        *)
(* in-memory comment map of main, and the three request handlers that      *)
(* net/http runs, one goroutine per request, against that shared state.    *)
(*                                                                         *)
(* Strings that the code compares (post ids, path values) are sequences of *)
(* one-character strings, so that equality, prefix and case are those of   *)
(* Go strings.  A date string is <<y, m, d>> when it has the shape         *)
(* YYYY-MM-DD and <<>> when it does not.  A slice is its sequence of       *)
(* elements.                                                               *)
(***************************************************************************)
EXTENDS Integers, Sequences, FiniteSets, TLC

\* ------------------------------------------------------------------ bounds

\* Goroutines serving requests at the same time.
NTasks == 2
\* Comment submissions accepted in one run.
MaxSubmits == 2
Tasks == 1..NTasks

\* ------------------------------------------------------------- input sets

\* Post ids and path-supplied ids: "a", "A" (case variant), "ab" (extension).
PathIds == { <<"a">>, <<"A">>, <<"a", "b">> }

\* Submitted (name, message) pairs: r.FormValue gives "" for an absent field.
CommentInputs ==
  { [Name |-> "A", Content |-> "hi"],
    [Name |-> "",  Content |-> "<script>"] }

\* One JSON field of a post record: a string, absent, or a number.
StrField(v) == [k |-> "str", v |-> v]
MissingField == [k |-> "missing", v |-> <<>>]
NumField == [k |-> "num", v |-> <<>>]

GoodDate == <<2025, 10, 20>>
BadDate == <<2025, 13, 40>>

RecA == [id |-> StrField(<<"a">>), date |-> StrField(GoodDate),
         filename |-> StrField(<<"f", "1">>), title |-> StrField(<<"T", "1">>)]
RecAB == [id |-> StrField(<<"a", "b">>), date |-> StrField(GoodDate),
          filename |-> StrField(<<"f", "2">>), title |-> StrField(<<"T", "2">>)]
\* A second record with the id of RecA.
RecA2 == [id |-> StrField(<<"a">>), date |-> StrField(GoodDate),
          filename |-> StrField(<<"f", "2">>), title |-> StrField(<<"T", "3">>)]
\* A date that is not a calendar date.
RecBadDate == [id |-> StrField(<<"A">>), date |-> StrField(BadDate),
               filename |-> StrField(<<"f", "1">>), title |-> StrField(<<"T", "4">>)]
\* Keys "date" and "title" absent.
RecMissing == [id |-> StrField(<<"a", "b">>), date |-> MissingField,
               filename |-> StrField(<<"f", "1">>), title |-> MissingField]
\* "date" is a JSON number.
RecMistyped == [id |-> StrField(<<"A">>), date |-> NumField,
                filename |-> StrField(<<"f", "1">>), title |-> StrField(<<"T", "6">>)]

ArrayDoc(rs) == [kind |-> "array", recs |-> rs]

\* The metadata document on disk: absent, not JSON, or an array of records.
Docs ==
  { [kind |-> "absent", recs |-> <<>>],
    [kind |-> "malformed", recs |-> <<>>],
    ArrayDoc(<<RecA, RecAB>>),
    ArrayDoc(<<RecA, RecA2>>),
    ArrayDoc(<<RecA, RecBadDate>>),
    ArrayDoc(<<RecA, RecMissing>>),
    ArrayDoc(<<RecA, RecMistyped>>) }

\* ------------------------------------------------- post.go: the registry

\* encoding/json into a Go string field: an absent key leaves the zero value
\* "", a JSON number is an UnmarshalTypeError.
FieldValue(f) == IF f.k = "str" THEN f.v ELSE <<>>

DecodePost(r) ==
  [Id |-> FieldValue(r.id), Date |-> FieldValue(r.date),
   Filename |-> FieldValue(r.filename), Title |-> FieldValue(r.title)]

RecordDecodes(r) ==
  /\ r.id.k # "num"
  /\ r.date.k # "num"
  /\ r.filename.k # "num"
  /\ r.title.k # "num"

\* os.ReadFile and json.Unmarshal of getPostList both succeed.
DocLoads(d) ==
  /\ d.kind = "array"
  /\ \A i \in 1..Len(d.recs) : RecordDecodes(d.recs[i])

\* The slice getPostList returns: one Post per record, in document order.
getPostList(d) == [i \in 1..Len(d.recs) |-> DecodePost(d.recs[i])]

IsLeap(y) == (y % 4 = 0 /\ y % 100 # 0) \/ y % 400 = 0

DaysIn(y, m) ==
  IF m = 2 THEN (IF IsLeap(y) THEN 29 ELSE 28)
  ELSE IF m \in {4, 6, 9, 11} THEN 30 ELSE 31

\* time.Parse(time.DateOnly, s) returns no error.
DateParses(s) ==
  /\ Len(s) = 3
  /\ s[2] \in 1..12
  /\ s[3] \in 1..DaysIn(s[1], s[2])

\* ------------------------------------------------ main.go: the handlers

\* ---- time.Time.Format("Monday, January _2") of a parsed date.  A formatted
\* string is the sequence of its pieces: the weekday name, ",", " ", the
\* month name, " ", and then one piece per character of the day field.

RECURSIVE DaysBeforeMonth(_, _)
DaysBeforeMonth(y, m) ==
  IF m = 1 THEN 0 ELSE DaysBeforeMonth(y, m - 1) + DaysIn(y, m - 1)

\* Days from 0001-01-01 (a Monday of the proleptic Gregorian calendar) to
\* the date.
DaysSinceMonday(y, m, d) ==
  365 * (y - 1) + ((y - 1) \div 4) - ((y - 1) \div 100) + ((y - 1) \div 400)
    + DaysBeforeMonth(y, m) + (d - 1)

WeekdayNames ==
  <<"Monday", "Tuesday", "Wednesday", "Thursday", "Friday", "Saturday",
    "Sunday">>

MonthNames ==
  <<"January", "February", "March", "April", "May", "June", "July",
    "August", "September", "October", "November", "December">>

Digit(n) == <<"0", "1", "2", "3", "4", "5", "6", "7", "8", "9">>[n + 1]

\* Layout "_2": the day in two columns, a space in the first when the day
\* has one digit.
DayField(d) ==
  IF d < 10 THEN <<" ", Digit(d)>> ELSE <<Digit(d \div 10), Digit(d % 10)>>

Format(s) ==
  <<WeekdayNames[(DaysSinceMonday(s[1], s[2], s[3]) % 7) + 1], ",", " ",
    MonthNames[s[2]], " ">> \o DayField(s[3])

\* strings.EqualFold in place of ==.
Fold(s) == [i \in 1..Len(s) |-> IF s[i] = "A" THEN "a" ELSE s[i]]

IdMatchesFold(postIdOfEntry, postId) == Fold(postIdOfEntry) = Fold(postId)

\* posts[i].Id == postId
IdMatches(postIdOfEntry, postId) == postIdOfEntry = postId

\* The loop of the post view: the index of the first entry whose Id is
\* postId, 0 for the nil pointer.
RECURSIVE LookupFrom(_, _, _)
LookupFrom(ps, postId, i) ==
  IF i > Len(ps) THEN 0
  ELSE IF IdMatches(ps[i].Id, postId) THEN i
  ELSE LookupFrom(ps, postId, i + 1)

Lookup(ps, postId) == LookupFrom(ps, postId, 1)

\* comments[postId] as a value: the zero value, a nil slice, for a key the
\* map does not hold.
MapRead(m, k) == IF k \in DOMAIN m THEN m[k] ELSE <<>>

\* One slice stored under every key of the map.
MapWriteShared(m, k, v) == [x \in DOMAIN m \cup {k} |-> v]

\* comments[postId] = v
MapWrite(m, k, v) == [x \in DOMAIN m \cup {k} |-> IF x = k THEN v ELSE m[x]]

\* The read of an absent key inserts it with the zero value.
MapReadCreates(m, k) == [x \in DOMAIN m \cup {k} |-> MapRead(m, x)]

\* The map after the read m[k]: an index expression leaves the map as it
\* is, whether k is a key or not.
AfterMapRead(m, k) == m

\* A submission without a name is dropped.
AppendValidated(s, c) == IF c.Name = "" THEN s ELSE Append(s, c)

\* The new comment put first.
PrependComment(s, c) == <<c>> \o s

\* append(s, c)
AppendComment(s, c) == Append(s, c)

\* ------------------------------------------------ util.go: renderTemplate

\* What the file system and the template set give one call: whether
\* template.ParseFiles succeeds, whether the page defines what the layout
\* asks for, and whether os.ReadFile of the post source succeeds.
Envs == [parse : BOOLEAN, page : BOOLEAN, md : BOOLEAN]

\* A response: beside status and page, what the handler gave the page to
\* show: list (the posts of the index page), dates (the formatted dates the
\* page called for), comments, and trusted (the origins of the values of type
\* template.HTML, which the page writes unescaped).
NoResp ==
  [kind |-> "none", status |-> 0, page |-> "", comments |-> <<>>, loc |-> <<>>,
   list |-> <<>>, dates |-> <<>>, trusted |-> {}]

\* check(err) with err != nil inside a handler: the panic unwinds the
\* handler, net/http recovers it in the connection's goroutine and closes
\* the connection.  No page is completed; status is the status line of the
\* part of the response that had left the buffer, if any had, and 0 when
\* nothing was written.
Aborted(status) ==
  [kind |-> "aborted", status |-> status, page |-> "", comments |-> <<>>,
   loc |-> <<>>, list |-> <<>>, dates |-> <<>>, trusted |-> {}]

Page(status, page, cs) ==
  [kind |-> "page", status |-> status, page |-> page, comments |-> cs,
   loc |-> <<>>, list |-> <<>>, dates |-> <<>>, trusted |-> {}]

\* The status a written response carries: the one WriteHeader set, else 200.
Committed(pending) == IF pending = 0 THEN 200 ELSE pending

\* renderTemplate(data, templateFile, w): parse base and page, check, then
\* execute "base", check.  execOk is whether ExecuteTemplate returns nil.
renderTemplate(parseOk, execOk, pending, page, cs) ==
  IF ~parseOk THEN Aborted(0)
  ELSE IF ~execOk THEN Aborted(Committed(pending))
  ELSE Page(Committed(pending), page, cs)

\* ------------------------------------------------------------------- state

VARIABLES
  doc,       \* posts/posts.json as it is on disk
  phase,     \* "boot", "serving", "exited" (panic in main), "crashed" (runtime fatal)
  nloads,    \* history: calls of getPostList so far
  posts,     \* main's posts
  comments,  \* main's comments map
  pc,        \* where each request goroutine is
  req,       \* the request it serves: path id and form fields
  found,     \* post view: index of *post in posts, 0 for nil
  local,     \* the slice the goroutine read from comments[postId]
  ops,       \* what the request in flight has done so far
  resp,      \* what the handler has sent, once it has returned
  nsub,      \* submissions accepted so far
  done,      \* history: per id, the comments whose submission has returned
  serial,    \* history: no two submissions have overlapped
  mustSee    \* history: per post view, the length of done[id] when it started

vars ==
  <<doc, phase, nloads, posts, comments, pc, req, found, local, ops, resp,
    nsub, done, serial, mustSee>>

NoReq == [id |-> <<>>, c |-> [Name |-> "", Content |-> ""]]

EmptyMap == [x \in {} |-> <<>>]

Init ==
  /\ doc \in Docs
  /\ phase = "boot"
  /\ nloads = 0
  /\ posts = <<>>
  /\ comments = EmptyMap
  /\ pc = [t \in Tasks |-> "idle"]
  /\ req = [t \in Tasks |-> NoReq]
  /\ found = [t \in Tasks |-> 0]
  /\ local = [t \in Tasks |-> <<>>]
  /\ ops = [t \in Tasks |-> {}]
  /\ resp = [t \in Tasks |-> NoResp]
  /\ nsub = 0
  /\ done = [i \in PathIds |-> <<>>]
  /\ serial = TRUE
  /\ mustSee = [t \in Tasks |-> 0]

\* main up to ListenAndServe: getPostList panics on a document that does
\* not load, check panics when the listener cannot be opened.
Boot(listenOk) ==
  /\ phase = "boot"
  /\ nloads' = nloads + 1
  /\ IF DocLoads(doc)
       THEN /\ posts' = getPostList(doc)
            /\ phase' = IF listenOk THEN "serving" ELSE "exited"
       ELSE /\ posts' = posts
            /\ phase' = "exited"
  /\ UNCHANGED <<doc, comments, pc, req, found, local, ops, resp, nsub,
                 done, serial, mustSee>>

SubmitPcs == {"sub_read", "sub_append", "sub_store"}

\* The goroutine is between its read of comments[postId] and the end of its
\* write back.
InWrite(t) == pc[t] \in {"sub_append", "sub_store"}

\* The goroutine is inside runtime.mapassign on comments.
InAssign(t) == pc[t] = "sub_store"

\* Post.HumanDate: check(err) panics when the Date does not parse; the
\* template engine returns the panic of a called method as an error.
HumanDateOk(p) == DateParses(p.Date)

\* The index page shows the date of every post, the post page that of its
\* post (the pages are templates/index.html and templates/post.html).
IndexDatesOk(ps) == \A i \in 1..Len(ps) : HumanDateOk(ps[i])

PostDateOk(p) == HumanDateOk(p)

\* Post.HumanDate of a Post whose Date parses.
HumanDate(p) == Format(p.Date)

\* The earlier formatPostDate: post.Date = parsedDate.Format(...), the date
\* string replaced by its display form, which is no YYYY-MM-DD string.
formatPostDate(p) == [p EXCEPT !.Date = <<>>]

\* The Post a page worked on, after the calls of HumanDate and Render: both
\* have a pointer receiver and only read it.
AfterDisplay(p) == p

\* Post.Render: check(err) panics when posts/<Filename> cannot be read.
RenderOk(e) == e.md

\* What Post.Render turns into template.HTML: the Markdown of the file
\* posts/<Filename>.
RenderInput(p) == [from |-> "post_file", v |-> p.Filename]

\* Comment fields handed over as template.HTML.
CommentMarkupHTML(cs) ==
  { [from |-> "comment", v |-> <<cs[i].Content>>] : i \in 1..Len(cs) }

\* Comment.Name and Comment.Content are of type string, and the post view
\* passes the []Comment as it read it: no comment field is template.HTML.
CommentMarkup(cs) == {}

\* The values of type template.HTML a post page is given.
TrustedOf(p, cs) == {RenderInput(p)} \cup CommentMarkup(cs)

\* The handler calls getPostList once more (the earlier index handler).
IndexReloads(n) == n + 1

\* The number of loads after the index handler: it calls no getPostList.
IndexLoads(n) == n

\* The slice reversed.
IndexDataReversed(ps) == [i \in 1..Len(ps) |-> ps[Len(ps) + 1 - i]]

\* The data of the index page: &posts.
IndexData(ps) == ps

\* The handler returns, or a panic unwinds it: what it did and what it sent
\* are final.
Returned(t, did, r) ==
  /\ resp' = [resp EXCEPT ![t] = r]
  /\ ops' = [ops EXCEPT ![t] = did]
  /\ pc' = [pc EXCEPT ![t] = "sent"]
  /\ found' = [found EXCEPT ![t] = 0]
  /\ local' = [local EXCEPT ![t] = <<>>]
  /\ mustSee' = [mustSee EXCEPT ![t] = 0]

\* net/http is done with the request and its goroutine ends.
Finish(t) ==
  /\ phase = "serving"
  /\ pc[t] = "sent"
  /\ pc' = [pc EXCEPT ![t] = "idle"]
  /\ req' = [req EXCEPT ![t] = NoReq]
  /\ ops' = [ops EXCEPT ![t] = {}]
  /\ resp' = [resp EXCEPT ![t] = NoResp]
  /\ UNCHANGED <<doc, nloads, phase, posts, comments, found, local, nsub, done,
                 serial, mustSee>>

\* What a call of renderTemplate adds to the record of the request.
ParseOps(e) ==
  (IF e.parse THEN {} ELSE {"parse_err"})
  \cup (IF e.parse /\ ~e.page THEN {"page_err"} ELSE {})

\* GET /: renderTemplate(&posts, "index", w).
Index(t, e) ==
  /\ phase = "serving"
  /\ pc[t] = "idle"
  /\ LET r == renderTemplate(e.parse, e.page /\ IndexDatesOk(posts), 0,
                             "index", <<>>)
     IN Returned(t,
          {"index"} \cup ParseOps(e)
            \cup (IF e.parse /\ e.page /\ ~IndexDatesOk(posts)
                    THEN {"date_err"} ELSE {}),
          [r EXCEPT
             !.list = IndexData(posts),
             !.dates = IF r.kind = "page"
                         THEN [i \in 1..Len(posts) |-> HumanDate(posts[i])]
                         ELSE <<>>])
  /\ nloads' = IndexLoads(nloads)
  /\ posts' = IF e.parse /\ e.page
                THEN [i \in 1..Len(posts) |-> AfterDisplay(posts[i])]
                ELSE posts
  /\ UNCHANGED <<doc, phase, comments, req, nsub, done, serial>>

\* The nil check left out.
ViewBranchEager(f) == "view_read"

\* if post == nil { ... } else { ... }
ViewBranch(f) == IF f = 0 THEN "view_nf" ELSE "view_read"

\* GET /posts/{id}: PathValue and the lookup loop.
ViewStart(t, id) ==
  /\ phase = "serving"
  /\ pc[t] = "idle"
  /\ req' = [req EXCEPT ![t] = [id |-> id, c |-> NoReq.c]]
  /\ found' = [found EXCEPT ![t] = Lookup(posts, id)]
  /\ pc' = [pc EXCEPT ![t] = ViewBranch(Lookup(posts, id))]
  /\ ops' = [ops EXCEPT ![t] = {"view", "lookup"}]
  /\ mustSee' = [mustSee EXCEPT ![t] = Len(done[id])]
  /\ UNCHANGED <<doc, nloads, phase, posts, comments, local, resp, nsub, done, serial>>

\* post == nil: w.WriteHeader(404); renderTemplate(nil, "404", w).
ViewNotFound(t, e) ==
  /\ phase = "serving"
  /\ pc[t] = "view_nf"
  /\ Returned(t,
       ops[t] \cup {"status404", "render404"} \cup ParseOps(e),
       renderTemplate(e.parse, e.page, 404, "404", <<>>))
  /\ UNCHANGED <<doc, nloads, phase, posts, comments, req, nsub, done, serial>>

\* post != nil: Comments: comments[postId], the map read.
ViewRead(t) ==
  /\ phase = "serving"
  /\ pc[t] = "view_read"
  /\ local' = [local EXCEPT ![t] = MapRead(comments, req[t].id)]
  /\ comments' = AfterMapRead(comments, req[t].id)
  /\ ops' = [ops EXCEPT ![t] = @ \cup {"comments"}]
  /\ pc' = [pc EXCEPT ![t] = "view_render"]
  /\ UNCHANGED <<doc, nloads, phase, posts, req, found, resp, nsub, done,
                 serial, mustSee>>

\* renderTemplate(struct{Post, Comments}, "post", w): the page calls
\* Post.Render, which reads the Markdown source.
ViewRender(t, e) ==
  /\ phase = "serving"
  /\ pc[t] = "view_render"
  /\ LET p == posts[found[t]]
         ran == e.parse /\ e.page
         r == renderTemplate(e.parse, e.page /\ RenderOk(e) /\ PostDateOk(p),
                             0, "post", local[t])
     IN /\ Returned(t,
             ops[t] \cup ParseOps(e)
               \cup (IF ran THEN {"markdown"} ELSE {})
               \cup (IF ran /\ ~RenderOk(e) THEN {"md_err"} ELSE {})
               \cup (IF ran /\ ~PostDateOk(p) THEN {"date_err"} ELSE {}),
             IF r.kind = "page"
               THEN [r EXCEPT !.dates = <<HumanDate(p)>>,
                              !.trusted = TrustedOf(p, local[t])]
               ELSE r)
        /\ posts' = IF ran
                      THEN [posts EXCEPT ![found[t]] = AfterDisplay(p)]
                      ELSE posts
  /\ UNCHANGED <<doc, nloads, phase, comments, req, nsub, done, serial>>

\* POST /posts/{id}/comment: PathValue and the two FormValues.
SubmitStart(t, id, c) ==
  /\ phase = "serving"
  /\ pc[t] = "idle"
  /\ nsub < MaxSubmits
  /\ nsub' = nsub + 1
  /\ req' = [req EXCEPT ![t] = [id |-> id, c |-> c]]
  /\ pc' = [pc EXCEPT ![t] = "sub_read"]
  /\ ops' = [ops EXCEPT ![t] = {"submit"}]
  /\ serial' = (serial /\ \A u \in Tasks : pc[u] \notin SubmitPcs)
  /\ UNCHANGED <<doc, nloads, phase, posts, comments, found, local, resp, done,
                 mustSee>>

\* The right-hand side's comments[postId].
SubmitRead(t) ==
  /\ phase = "serving"
  /\ pc[t] = "sub_read"
  /\ local' = [local EXCEPT ![t] = MapRead(comments, req[t].id)]
  /\ comments' = AfterMapRead(comments, req[t].id)
  /\ ops' = [ops EXCEPT ![t] = @ \cup {"comments"}]
  /\ pc' = [pc EXCEPT ![t] = "sub_append"]
  /\ UNCHANGED <<doc, nloads, phase, posts, req, found, resp, nsub, done,
                 serial, mustSee>>

\* append(...) is done; the goroutine enters the map write.
SubmitAssignBegin(t) ==
  /\ phase = "serving"
  /\ pc[t] = "sub_append"
  /\ local' = [local EXCEPT ![t] = AppendComment(@, req[t].c)]
  /\ pc' = [pc EXCEPT ![t] = "sub_store"]
  /\ UNCHANGED <<doc, nloads, phase, posts, comments, req, found, ops, resp, nsub,
                 done, serial, mustSee>>

Redirect(id) ==
  [kind |-> "redirect", status |-> 303, page |-> "", comments |-> <<>>,
   loc |-> id, list |-> <<>>, dates |-> <<>>, trusted |-> {}]

\* comments[postId] = the appended slice, then
\* http.Redirect(w, r, "/posts/" + postId, http.StatusSeeOther).
SubmitStore(t) ==
  /\ phase = "serving"
  /\ pc[t] = "sub_store"
  /\ comments' = MapWrite(comments, req[t].id, local[t])
  /\ done' = [done EXCEPT ![req[t].id] = Append(@, req[t].c)]
  /\ Returned(t, ops[t] \cup {"append", "redirect"}, Redirect(req[t].id))
  /\ UNCHANGED <<doc, nloads, phase, posts, req, nsub, serial>>

\* The Go runtime's check for unsynchronised map use: a goroutine that
\* enters a map read or a map write while another is inside a map write may
\* find the map's writing flag set, and the runtime then ends the process
\* ("concurrent map read and map write", "concurrent map writes").  The flag
\* is read without synchronisation, so the goroutine may also go on.
MapRaceFatal(t) ==
  /\ phase = "serving"
  /\ pc[t] \in {"view_read", "sub_read", "sub_append"}
  /\ \E u \in Tasks \ {t} : InAssign(u)
  /\ phase' = "crashed"
  /\ pc' = [pc EXCEPT ![t] = "fatal"]
  /\ UNCHANGED <<doc, nloads, posts, comments, req, found, local, ops, resp, nsub,
                 done, serial, mustSee>>

Next ==
  \/ \E l \in BOOLEAN : Boot(l)
  \/ \E t \in Tasks, e \in Envs : Index(t, e)
  \/ \E t \in Tasks, id \in PathIds : ViewStart(t, id)
  \/ \E t \in Tasks, e \in Envs : ViewNotFound(t, e)
  \/ \E t \in Tasks : ViewRead(t)
  \/ \E t \in Tasks, e \in Envs : ViewRender(t, e)
  \/ \E t \in Tasks, id \in PathIds, c \in CommentInputs : SubmitStart(t, id, c)
  \/ \E t \in Tasks : SubmitRead(t)
  \/ \E t \in Tasks : SubmitAssignBegin(t)
  \/ \E t \in Tasks : SubmitStore(t)
  \/ \E t \in Tasks : MapRaceFatal(t)
  \/ \E t \in Tasks : Finish(t)

Spec == Init /\ [][Next]_vars

\* ---- The index page over one-post documents of every date of two years,
\* among them the days no month has.

DateYears == {2024, 2025}

DateInputs == { <<y, m, d>> : y \in DateYears, m \in 1..12, d \in 1..31 }

DateDoc(d) ==
  ArrayDoc(<<[id |-> StrField(<<"a">>), date |-> StrField(d),
              filename |-> StrField(<<"f", "1">>),
              title |-> StrField(<<"T", "1">>)]>>)

InitDate ==
  /\ doc \in { DateDoc(d) : d \in DateInputs }
  /\ phase = "boot"
  /\ nloads = 0
  /\ posts = <<>>
  /\ comments = EmptyMap
  /\ pc = [t \in Tasks |-> "idle"]
  /\ req = [t \in Tasks |-> NoReq]
  /\ found = [t \in Tasks |-> 0]
  /\ local = [t \in Tasks |-> <<>>]
  /\ ops = [t \in Tasks |-> {}]
  /\ resp = [t \in Tasks |-> NoResp]
  /\ nsub = 0
  /\ done = [i \in PathIds |-> <<>>]
  /\ serial = TRUE
  /\ mustSee = [t \in Tasks |-> 0]

NextDate ==
  \/ \E l \in BOOLEAN : Boot(l)
  \/ \E t \in Tasks, e \in Envs : Index(t, e)
  \/ \E t \in Tasks : Finish(t)

SpecDate == InitDate /\ [][NextDate]_vars

\* ------------------------------------------------------------------ claims

Count(s, c) == Cardinality({ i \in 1..Len(s) : s[i] = c })

SameBag(s1, s2) ==
  /\ Len(s1) = Len(s2)
  /\ \A c \in CommentInputs : Count(s1, c) = Count(s2, c)

KnownId(k) == \E i \in 1..Len(posts) : posts[i].Id = k

NoSubmitInFlight == \A t \in Tasks : pc[t] \notin SubmitPcs

\* C1: when N submissions to a post id have all returned, whatever their
\* interleaving, the sequence stored for the id holds each submitted comment
\* exactly once (length N, nothing lost, nothing duplicated).
C1_NoLostAppend ==
  (phase = "serving" /\ NoSubmitInFlight) =>
    \A id \in PathIds : SameBag(MapRead(comments, id), done[id])

\* C2: a submission for an id that is not in the registry is rejected and
\* appends nothing, so every key of the comment map is the id of a post.
C2_UnknownIdRejected ==
  /\ \A k \in DOMAIN comments : KnownId(k)
  /\ \A t \in Tasks :
       (pc[t] = "sent" /\ "submit" \in ops[t] /\ ~KnownId(req[t].id)) =>
         (resp[t].kind # "redirect" /\ "append" \notin ops[t])

\* C3: no two goroutines are inside their access to the comment map at the
\* same time when one of them is a submission.
C3_MapAccessExclusive ==
  \A t, u \in Tasks : (t # u /\ InWrite(t)) => ~InWrite(u)

\* C4: when the submissions run one after another, the sequence stored for
\* an id is the submitted comments in submission order, and the key exists
\* exactly when something was submitted for it.
C4_SerialAppendOrder ==
  (serial /\ NoSubmitInFlight) =>
    \A id \in PathIds :
      /\ MapRead(comments, id) = done[id]
      /\ id \in DOMAIN comments <=> done[id] # <<>>

\* Two different comments were submitted in turn for one id and are stored
\* in that order.
C4_Witness ==
  /\ phase = "serving" /\ serial /\ NoSubmitInFlight
  /\ \E id \in PathIds :
       /\ Len(done[id]) = 2
       /\ done[id][1] # done[id][2]
       /\ MapRead(comments, id) = done[id]

\* C5: a post view that starts after a submission for its id has returned
\* is given a sequence that holds the submitted comment.
C5_CompletedAppendVisible ==
  \A t \in Tasks :
    pc[t] = "view_render" =>
      \A c \in CommentInputs :
        Count(local[t], c) >= Count(SubSeq(done[req[t].id], 1, mustSee[t]), c)

\* C6: the read of comments[id] for an id nothing was appended to returns
\* the empty sequence and never fails; the map is empty until the first
\* submission.
C6_AbsentKeyReadNeverFails ==
  /\ nsub = 0 => comments = EmptyMap
  /\ \A t \in Tasks :
       ("view" \in ops[t] /\ done[req[t].id] = <<>>) =>
         /\ pc[t] = "view_render" => local[t] = <<>>
         /\ pc[t] # "fatal"

\* Whole-string, case-sensitive equality of two strings.
StrEq(a, b) == Len(a) = Len(b) /\ \A i \in 1..Len(a) : a[i] = b[i]

UniqueIds ==
  \A i, j \in 1..Len(posts) : StrEq(posts[i].Id, posts[j].Id) => i = j

\* C7: a post view of an id that is in no post sets status 404 and composes
\* the 404 page, which is the response whenever composition succeeds; it
\* neither reads the comment map nor renders Markdown.
C7_UnknownViewIs404 ==
  \A t \in Tasks :
    ("view" \in ops[t] /\ ~KnownId(req[t].id)) =>
      /\ pc[t] \in {"view_nf", "sent"}
      /\ "comments" \notin ops[t]
      /\ "markdown" \notin ops[t]
      /\ pc[t] = "sent" =>
           /\ {"status404", "render404"} \subseteq ops[t]
           /\ \/ resp[t] = Page(404, "404", <<>>)
              \/ /\ resp[t].kind = "aborted"
                 /\ ops[t] \cap {"parse_err", "page_err"} # {}

\* A view of an unknown id has been answered with the 404 page.
C7_Witness ==
  \E t \in Tasks :
    /\ pc[t] = "sent" /\ "view" \in ops[t] /\ ~KnownId(req[t].id)
    /\ resp[t] = Page(404, "404", <<>>)

\* C8: with unique ids, the lookup of s finds the post whose id is s,
\* character for character, when there is one, and nothing otherwise.
C8_LookupExact ==
  \A t \in Tasks :
    (pc[t] \in {"view_nf", "view_read", "view_render"} /\ UniqueIds) =>
      IF \E i \in 1..Len(posts) : StrEq(posts[i].Id, req[t].id)
        THEN found[t] # 0 /\ StrEq(posts[found[t]].Id, req[t].id)
        ELSE found[t] = 0 /\ pc[t] = "view_nf"

\* "ab" was looked up in a registry whose first id is "a" and the second
\* post was found, while another view looked up an id that differs from a
\* loaded one only in case and found nothing.
C8_Witness ==
  /\ UniqueIds
  /\ \E t \in Tasks :
       /\ pc[t] = "view_read" /\ req[t].id = <<"a", "b">>
       /\ found[t] = 2 /\ posts[1].Id = <<"a">>
  /\ \E t \in Tasks :
       /\ pc[t] = "view_nf" /\ req[t].id = <<"A">>
       /\ \E i \in 1..Len(posts) : posts[i].Id = <<"a">>

\* C9: when the Markdown source of an otherwise valid post cannot be read,
\* the view answers with an error status and a fallback page, and the
\* process goes on serving.
C9_MissingSourceFallback ==
  \A t \in Tasks :
    (pc[t] = "sent" /\ "md_err" \in ops[t] /\ "date_err" \notin ops[t]) =>
      /\ resp[t].kind = "page"
      /\ resp[t].status >= 400
      /\ phase # "exited"

\* C10: when the layout or the page cannot be parsed, or the page lacks an
\* insertion point, the request fails with a 5xx status and the process
\* goes on serving.
C10_TemplateFailureIs500 ==
  \A t \in Tasks :
    (pc[t] = "sent" /\ ops[t] \cap {"parse_err", "page_err"} # {}) =>
      /\ resp[t].status \in 500..599
      /\ phase # "exited"

\* The record has every field the Post struct has, each a JSON string.
WellFormed(r) ==
  /\ r.id.k = "str" /\ r.date.k = "str"
  /\ r.filename.k = "str" /\ r.title.k = "str"

Accepting == phase \in {"serving", "crashed"}

\* C11: when the metadata document is malformed, or a record of it has a
\* missing or a mistyped field, the load fails and the process never accepts
\* a request.
C11_BadMetadataNeverServes ==
  Accepting =>
    /\ doc.kind = "array"
    /\ \A i \in 1..Len(doc.recs) : WellFormed(doc.recs[i])

\* C12: a post whose date is no valid YYYY-MM-DD date fails the load, so the
\* registry of a process that accepts requests holds valid dates only and no
\* request is the first to meet the date failure.
C12_BadDateFailsAtLoad ==
  /\ Accepting => \A i \in 1..Len(posts) : DateParses(posts[i].Date)
  /\ \A t \in Tasks : "date_err" \notin ops[t]

\* C13: a metadata document with two records of one id is rejected by the
\* load, so the ids of the registry of a process that accepts requests are
\* pairwise distinct.
C13_DuplicateIdRejected == Accepting => UniqueIds

\* C14: getPostList is called exactly once, in main before the server
\* listens: never before a request is in hand has it not been called, and
\* no handler calls it again.
C14_LoadedOnceBeforeServing ==
  /\ phase = "boot" => (nloads = 0 /\ \A t \in Tasks : pc[t] = "idle")
  /\ phase # "boot" => nloads = 1
  /\ \A t \in Tasks : pc[t] # "idle" => nloads = 1

\* Both goroutines have answered a request, one of them the index page, and
\* the document has been loaded once.
C14_Witness ==
  /\ phase = "serving" /\ nloads = 1
  /\ \E t, u \in Tasks :
       /\ t # u /\ pc[t] = "sent" /\ pc[u] = "sent"
       /\ "index" \in ops[t] /\ resp[t].kind = "page"
       /\ Len(resp[t].list) = 2

\* C15: once the server accepts requests no step changes the registry.
C15_RegistryFrozen == [][phase = "serving" => posts' = posts]_vars

\* A post page that showed the date and the rendered source has been sent,
\* an index page too, a comment is stored, and the registry is the loaded
\* document.
C15_Witness ==
  /\ phase = "serving" /\ Len(posts) = 2 /\ posts = getPostList(doc)
  /\ comments # EmptyMap
  /\ \E t, u \in Tasks :
       /\ pc[t] = "sent" /\ "markdown" \in ops[t] /\ resp[t].kind = "page"
       /\ resp[t].dates # <<>>
       /\ pc[u] = "sent" /\ "index" \in ops[u] /\ resp[u].kind = "page"

\* C16: the step in which a submission for the id of a post writes the map
\* makes the id's sequence the sequence it was plus the one submitted
\* comment, changes no other id's, and is the step that sends the redirect
\* to the view of that id.
C16_AppendOneThenRedirect ==
  [][\A t \in Tasks :
       (pc[t] = "sub_store" /\ pc'[t] = "sent" /\ KnownId(req[t].id)) =>
         /\ MapRead(comments', req[t].id)
              = Append(MapRead(comments, req[t].id), req[t].c)
         /\ \A k \in PathIds \ {req[t].id} :
              MapRead(comments', k) = MapRead(comments, k)
         /\ resp'[t] = Redirect(req[t].id)]_vars

\* The origins a handler may hand over as trusted markup: the source files
\* of the posts of the registry.
PostFiles ==
  { [from |-> "post_file", v |-> posts[i].Filename] : i \in 1..Len(posts) }

\* C17: every value a response was given as trusted markup is the rendering
\* of the source file of a post, never a comment field; the comment fields
\* are in the response as the strings that were read from the map.
C17_OnlyPostSourceTrusted ==
  \A t \in Tasks :
    /\ resp[t].trusted \subseteq PostFiles
    /\ \A x \in resp[t].trusted : x.from # "comment"
    /\ \A i \in 1..Len(resp[t].comments) :
         resp[t].comments[i] \in CommentInputs

\* A post page was sent whose comments hold markup characters, and its only
\* trusted value is the rendering of the post's file.
C17_Witness ==
  \E t \in Tasks :
    /\ pc[t] = "sent" /\ resp[t].kind = "page" /\ resp[t].page = "post"
    /\ \E i \in 1..Len(resp[t].comments) :
         resp[t].comments[i].Content = "<script>"
    /\ \E i \in 1..Len(posts) :
         /\ posts[i].Id = req[t].id
         /\ resp[t].trusted = {[from |-> "post_file", v |-> posts[i].Filename]}

\* The day of month written with no padding at all.
DayBare(d) ==
  IF d < 10 THEN <<Digit(d)>> ELSE <<Digit(d \div 10), Digit(d % 10)>>

\* The string the claim describes for a valid date.
Unpadded(s) ==
  <<WeekdayNames[(DaysSinceMonday(s[1], s[2], s[3]) % 7) + 1], ",", " ",
    MonthNames[s[2]], " ">> \o DayBare(s[3])

\* C18: the date shown for a valid date is the weekday name, a comma and a
\* space, the month name, a space, and the day with no padding, so a day
\* from 1 to 9 is one digit after exactly one space; 2025-10-20 is shown as
\* "Monday, October 20".
C18_DayUnpadded ==
  \A t \in Tasks :
    (pc[t] = "sent" /\ "index" \in ops[t] /\ resp[t].kind = "page") =>
      \A i \in 1..Len(posts) :
        /\ resp[t].dates[i] = Unpadded(posts[i].Date)
        /\ posts[i].Date = <<2025, 10, 20>> =>
             resp[t].dates[i] = <<"Monday", ",", " ", "October", " ", "2", "0">>

\* C19: the posts the index handler gives its page are the records of the
\* metadata document, all of them, once each, in the order of the document.
C19_IndexInFileOrder ==
  \A t \in Tasks :
    (pc[t] = "sent" /\ "index" \in ops[t]) =>
      /\ Len(resp[t].list) = Len(doc.recs)
      /\ \A i \in 1..Len(doc.recs) :
           /\ resp[t].list[i].Id = doc.recs[i].id.v
           /\ resp[t].list[i].Date = doc.recs[i].date.v
           /\ resp[t].list[i].Filename = doc.recs[i].filename.v
           /\ resp[t].list[i].Title = doc.recs[i].title.v

\* An index page was sent for a document of two different records, and its
\* list has the first record first.
C19_Witness ==
  \E t \in Tasks :
    /\ pc[t] = "sent" /\ "index" \in ops[t] /\ resp[t].kind = "page"
    /\ Len(resp[t].list) = 2
    /\ resp[t].list[1].Id = <<"a">> /\ resp[t].list[2].Id = <<"a", "b">>
    /\ doc.recs[1].id.v = <<"a">>

\* C20: whatever the submitted fields are, the step in which a submission
\* for the id of a post writes the map leaves the submitted comment,
\* unchanged, as the last of the id's sequence and sends the redirect.
C20_NoValidation ==
  [][\A t \in Tasks :
       (pc[t] = "sub_store" /\ pc'[t] = "sent" /\ KnownId(req[t].id)) =>
         /\ req[t].id \in DOMAIN comments'
         /\ comments'[req[t].id] # <<>>
         /\ comments'[req[t].id][Len(comments'[req[t].id])] = req[t].c
         /\ resp'[t] = Redirect(req[t].id)]_vars

\* A submission with an empty name and markup in the message, for the id of
\* a post, has been answered with the redirect and is the last stored.
C20_Witness ==
  \E t \in Tasks :
    /\ pc[t] = "sent" /\ "append" \in ops[t] /\ KnownId(req[t].id)
    /\ req[t].c = [Name |-> "", Content |-> "<script>"]
    /\ resp[t] = Redirect(req[t].id)
    /\ req[t].id \in DOMAIN comments
    /\ comments[req[t].id][Len(comments[req[t].id])] = req[t].c

IsPrefix(s1, s2) == Len(s1) <= Len(s2) /\ SubSeq(s2, 1, Len(s1)) = s1

\* C21: in every step, whatever the interleaving, the sequence stored for
\* an id before the step is a prefix of the one stored after it, and no key
\* of the map disappears.
C21_LogOnlyGrows ==
  [][/\ DOMAIN comments \subseteq DOMAIN comments'
     /\ \A id \in PathIds :
          IsPrefix(MapRead(comments, id), MapRead(comments', id))]_vars

\* The step is one of a list view or of a post view, hit or miss.
ViewStep ==
  \E t \in Tasks :
    /\ pc'[t] # pc[t]
    /\ ops'[t] \cap {"index", "view"} # {}

\* C22: no step of a list view or of a post view changes the comment map;
\* the read of the comments of an id without comments creates no key.
C22_ViewsLeaveLog == [][ViewStep => comments' = comments]_vars

\* While comments were stored for one id, a post view of another post read
\* the comments of its id, which has no key, showed none, and a view of an
\* unknown id was answered; the other id still has no key.
C22_Witness ==
  /\ comments # EmptyMap
  /\ \E t, u \in Tasks :
       /\ pc[t] = "sent" /\ "view" \in ops[t] /\ "comments" \in ops[t]
       /\ resp[t].kind = "page" /\ resp[t].comments = <<>>
       /\ req[t].id \notin DOMAIN comments
       /\ pc[u] = "sent" /\ "render404" \in ops[u]

\* C23: the step in which a submission for X writes the map leaves every
\* other id as it was, key and sequence; and the comments a post view of Y
\* shows were all submitted under Y.
C23_SubmitTouchesOwnIdOnly ==
  /\ [][\A t \in Tasks :
          (pc[t] = "sub_store" /\ pc'[t] = "sent") =>
            \A k \in PathIds \ {req[t].id} :
              /\ k \in DOMAIN comments' <=> k \in DOMAIN comments
              /\ MapRead(comments', k) = MapRead(comments, k)]_vars
  /\ [](\A t \in Tasks :
          (pc[t] = "sent" /\ "view" \in ops[t]) =>
            \A i \in 1..Len(resp[t].comments) :
              Count(done[req[t].id], resp[t].comments[i]) > 0)

\* Two different comments are stored, one under each of two posts, and a
\* view of one of the posts showed its own comment only.
C23_Witness ==
  \E x, y \in DOMAIN comments :
    /\ x # y /\ KnownId(x) /\ KnownId(y)
    /\ Len(comments[x]) = 1 /\ Len(comments[y]) = 1
    /\ comments[x] # comments[y]
    /\ \E t \in Tasks :
         /\ pc[t] = "sent" /\ "view" \in ops[t] /\ req[t].id = y
         /\ resp[t].comments = comments[y]

====
